---- MODULE Spec2Model ----
(***************************************************************************)
(* Model of the stock fan-out servers of AtanuCodes/NodeServer.            *)
(*                                                                         *)
(*  - the WebSocket server (src/unnamed/part_000, second listing, lines    *)
(*    325-676): getIDLCAuthToken, getAllStockCompanies,                    *)
(*    fetchAndBroadcastStockData, the connection handler, the cron tick    *)
(*    and the start-up timer;                                              *)
(*  - the Socket.IO server (src/unnamed/part_001): getAuthToken,           *)
(*    fetchStockData and the connection handler.                           *)
(*                                                                         *)
(* JavaScript runs one callback at a time, so every action below is one    *)
(* run of a callback from the point where it is resumed to its next await  *)
(* (or its end).                                                           *)
(***************************************************************************)
EXTENDS Integers, Sequences, FiniteSets, TLC

(***************************************************************************)
(* State.                                                                  *)
(***************************************************************************)
\* the WebSocket server (part_000)
VARIABLES
  authToken,       \* part_000:356
  latestStockMap,  \* part_000:355
  clients,         \* part_000:352, the Set in insertion order
  conn,            \* per subscriber: the state of its WebSocket
  inbox,           \* per subscriber: the messages delivered to it, in order
  tasks,           \* per callback: where its async function is suspended
  ticksDone,       \* cron ticks fired so far
  faultsLeft,      \* upstream failures still allowed
  connsLeft        \* connections still allowed

wsVars == <<authToken, latestStockMap, clients, conn, inbox, tasks, ticksDone,
            faultsLeft, connsLeft>>

\* the Socket.IO server (part_001)
VARIABLES
  ioAuthToken,     \* part_001:34
  ioExpiry,        \* part_001:37, tokenExpiryTime (0: not set)
  ioNow,           \* Date.now()
  ioPrev,          \* part_001:35, previousStockData
  ioSockets,       \* the connected sockets
  ioInbox,         \* per socket: the events emitted to it, in order
  ioTasks,         \* per call: where its async function is suspended
  ioFaultsLeft,    \* upstream failures still allowed
  ioLastAuth,      \* how the latest call of getAuthToken ended ("none": no call yet)
  ioRejected       \* the stored token was answered 401 since it was obtained

ioVars == <<ioAuthToken, ioExpiry, ioNow, ioPrev, ioSockets, ioInbox, ioTasks,
            ioFaultsLeft, ioLastAuth, ioRejected>>

\* the harness of the two diffs
VARIABLES dPrev, dSeq, dInitial, dPhase, dUpdates, dStore

diffVars == <<dPrev, dSeq, dInitial, dPhase, dUpdates, dStore>>

\* the upstream's data feed as the overlapping fetches see it
VARIABLES
  upstream,        \* the version of the data the upstream holds now
  answered         \* per callback: the version its data request was answered with (0: not yet)

feedVars == <<upstream, answered>>

vars == <<wsVars, ioVars, diffVars, feedVars>>

\* what each part leaves alone
notWs == <<ioVars, diffVars, feedVars>>
notIo == <<wsVars, diffVars, feedVars>>
notDiff == <<wsVars, ioVars, feedVars>>

(***************************************************************************)
(* Bounds of the model.                                                    *)
(***************************************************************************)
\* longest upstream response (number of records) the diff harness draws
MaxLen == 2

(***************************************************************************)
(* Upstream records.                                                       *)
(***************************************************************************)
KeyOrder == <<"AAA", "BBB">>
Keys == {KeyOrder[i] : i \in 1..Len(KeyOrder)}
KeyIndex(k) == CHOOSE i \in 1..Len(KeyOrder) : KeyOrder[i] = k
Prices == {10, 11}
Changes == {-1, 0}
Percents == {0, 1}

\* a record of the upstream response, with the fields the servers read
Item == [dseCompanyCode : Keys, ycp : Prices, mktValueChange : Changes,
         mktValChangePercentage : Percents]

\* the absent record (undefined, as Map.get and a missing property give)
Null == [absent |-> TRUE]

\* part_000:497-503, the record the server stores and sends
MappedItem(item) ==
  [trading_code |-> item.dseCompanyCode,
   last_trading_price |-> item.ycp,
   change |-> item.mktValueChange,
   change_percent |-> item.mktValChangePercentage,
   indicator |-> IF item.mktValueChange >= 0 THEN "Up" ELSE "Down"]

\* all sequences over S of length at most n
SeqsUpTo(S, n) == UNION {[1..k -> S] : k \in 0..n}

(***************************************************************************)
(* A JavaScript Map (or plain object) keyed by trading code: a sequence of *)
(* records with distinct keys, in insertion order.                         *)
(***************************************************************************)
MapKeys(m) == {m[i].trading_code : i \in 1..Len(m)}

MapHas(m, k) == k \in MapKeys(m)

MapGet(m, k) ==
  IF MapHas(m, k)
  THEN m[CHOOSE i \in 1..Len(m) : m[i].trading_code = k]
  ELSE Null

\* Map.prototype.set: an existing key keeps its place, a new key is appended
MapSet(m, k, v) ==
  IF MapHas(m, k)
  THEN [i \in 1..Len(m) |-> IF m[i].trading_code = k THEN v ELSE m[i]]
  ELSE Append(m, v)

MapSize(m) == Len(m)

\* Array.from(map.values())
MapValues(m) == m

EmptyMap == << >>

(***************************************************************************)
(* The diff of fetchAndBroadcastStockData (part_000:493-519).              *)
(***************************************************************************)
\* part_000:509-513, the test that decides whether a record is reported
\* variant: a record with no previous entry is not reported
HasUpdateNoNew(isInitial, prevItem, mappedItem) ==
  \/ isInitial
  \/ /\ prevItem # Null
     /\ \/ prevItem.last_trading_price # mappedItem.last_trading_price
        \/ prevItem.change # mappedItem.change
        \/ prevItem.change_percent # mappedItem.change_percent

\* variant: the stored and the new record are compared as objects
HasUpdateIdentity(isInitial, prevItem, mappedItem) == TRUE

HasUpdate(isInitial, prevItem, mappedItem) ==
  \/ isInitial
  \/ prevItem = Null
  \/ prevItem.last_trading_price # mappedItem.last_trading_price
  \/ prevItem.change # mappedItem.change
  \/ prevItem.change_percent # mappedItem.change_percent

\* variant: a reported record is put at the front of updates (unshift)
RECURSIVE DiffLoopUnshift(_, _, _, _, _, _)
DiffLoopUnshift(stockData, i, latest, isInitial, newStockMap, updates) ==
  IF i > Len(stockData)
  THEN [newStockMap |-> newStockMap, updates |-> updates]
  ELSE LET mappedItem == MappedItem(stockData[i])
           key == mappedItem.trading_code
           prevItem == MapGet(latest, key)
       IN DiffLoopUnshift(stockData, i + 1, latest, isInitial,
                          MapSet(newStockMap, key, mappedItem),
                          IF HasUpdate(isInitial, prevItem, mappedItem)
                          THEN <<mappedItem>> \o updates
                          ELSE updates)

\* part_000:496-516, the forEach over stockData; every record is compared
\* with latestStockMap as it was before the cycle
RECURSIVE DiffLoop(_, _, _, _, _, _)
DiffLoop(stockData, i, latest, isInitial, newStockMap, updates) ==
  IF i > Len(stockData)
  THEN [newStockMap |-> newStockMap, updates |-> updates]
  ELSE LET mappedItem == MappedItem(stockData[i])
           key == mappedItem.trading_code
           prevItem == MapGet(latest, key)
       IN DiffLoop(stockData, i + 1, latest, isInitial,
                   MapSet(newStockMap, key, mappedItem),
                   IF HasUpdate(isInitial, prevItem, mappedItem)
                   THEN Append(updates, mappedItem)
                   ELSE updates)

ComputeUpdates(latest, stockData, isInitial) ==
  DiffLoop(stockData, 1, latest, isInitial, EmptyMap, << >>)

(***************************************************************************)
(* The diff of fetchStockData (part_001:197-211).  The records are kept    *)
(* as received and are taken to carry the fields fetchStockData reads:     *)
(* the key (dseCompanyCode || trading_code), last_trading_price, change,   *)
(* and the change-percent it does not read.                                *)
(***************************************************************************)
\* a record of the response, under the names part_001 reads
IoStock(item) ==
  [trading_code |-> item.dseCompanyCode,
   last_trading_price |-> item.ycp,
   change |-> item.mktValueChange,
   change_percent |-> item.mktValChangePercentage]

\* part_001:203-205
IoHasUpdate(prev, stock) ==
  \/ prev = Null
  \/ prev.last_trading_price # stock.last_trading_price
  \/ prev.change # stock.change

\* part_001:198-211, previousStockData is written inside the loop
RECURSIVE IoDiffLoop(_, _, _, _)
IoDiffLoop(stockData, i, previous, updates) ==
  IF i > Len(stockData)
  THEN [previousStockData |-> previous, updates |-> updates]
  ELSE LET stock == IoStock(stockData[i])
           stockCode == stock.trading_code
           prev == MapGet(previous, stockCode)
       IN IF IoHasUpdate(prev, stock)
          THEN IoDiffLoop(stockData, i + 1, MapSet(previous, stockCode, stock),
                          Append(updates, stock))
          ELSE IoDiffLoop(stockData, i + 1, previous, updates)

IoComputeUpdates(previous, stockData) ==
  IoDiffLoop(stockData, 1, previous, << >>)

(***************************************************************************)
(* Harness of the two diffs: a stored snapshot and a fetched response are  *)
(* drawn, then one of the diffs is applied.                                *)
(***************************************************************************)
\* the snapshots: at most one record per key
RECURSIVE BuildMap(_, _, _)
BuildMap(s, i, m) ==
  IF i > Len(s) THEN m
  ELSE BuildMap(s, i + 1, MapSet(m, s[i].dseCompanyCode, MappedItem(s[i])))

Snapshots ==
  {BuildMap(s, 1, EmptyMap) :
     s \in {t \in SeqsUpTo(Item, Cardinality(Keys)) :
              \A i, j \in 1..Len(t) :
                i < j => KeyIndex(t[i].dseCompanyCode) < KeyIndex(t[j].dseCompanyCode)}}

DiffInit ==
  /\ dPrev \in Snapshots
  /\ dSeq \in SeqsUpTo(Item, MaxLen)
  /\ dInitial \in BOOLEAN
  /\ dPhase = "input"
  /\ dUpdates = << >>
  /\ dStore = dPrev

\* one cycle of fetchAndBroadcastStockData(isInitial) on the drawn response
ApplyDiff ==
  /\ dPhase = "input"
  /\ LET r == ComputeUpdates(dPrev, dSeq, dInitial)
     IN /\ dUpdates' = r.updates
        /\ dStore' = r.newStockMap
  /\ dPhase' = "ws"
  /\ UNCHANGED <<dPrev, dSeq, dInitial>>
  /\ UNCHANGED notDiff

\* the drawn snapshot as previousStockData holds it
IoView(m) ==
  [i \in 1..Len(m) |->
     [trading_code |-> m[i].trading_code,
      last_trading_price |-> m[i].last_trading_price,
      change |-> m[i].change,
      change_percent |-> m[i].change_percent]]

\* one cycle of fetchStockData on the drawn response
ApplyIoDiff ==
  /\ dPhase = "input"
  /\ dInitial = FALSE
  /\ LET r == IoComputeUpdates(IoView(dPrev), dSeq)
     IN /\ dUpdates' = r.updates
        /\ dStore' = r.previousStockData
  /\ dPhase' = "io"
  /\ UNCHANGED <<dPrev, dSeq, dInitial>>
  /\ UNCHANGED notDiff

DiffNext == ApplyDiff \/ ApplyIoDiff


(***************************************************************************)
(* The WebSocket server (part_000:325-676).                                *)
(***************************************************************************)
\* upstream failures (rejections, errors, 401s, empty bodies) the model lets happen
MaxFaults == 2

\* part_000:374 and part_000:424, the default retryCount
RetryCount == 5

\* the subscribers that may connect, and the callbacks that start cycles
Clients == {"c1", "c2"}
TickOrder == <<"tick1", "tick2">>
TickTasks == {TickOrder[i] : i \in 1..Len(TickOrder)}
Tasks == {"cold"} \cup TickTasks \cup Clients

\* authToken before the first authentication, and the token upstream hands out
NoToken == "none"
Token == "token"

\* records and bodies the upstream answers the data request with
A10 == [dseCompanyCode |-> "AAA", ycp |-> 10, mktValueChange |-> 0,
        mktValChangePercentage |-> 0]
A11 == [dseCompanyCode |-> "AAA", ycp |-> 11, mktValueChange |-> 0,
        mktValChangePercentage |-> 1]
B10 == [dseCompanyCode |-> "BBB", ycp |-> 10, mktValueChange |-> -1,
        mktValChangePercentage |-> 0]

Bodies ==
  {[isArray |-> TRUE, items |-> << >>],
   [isArray |-> TRUE, items |-> <<A10>>],
   [isArray |-> TRUE, items |-> <<A11, B10>>],
   [isArray |-> FALSE, items |-> <<B10>>]}

\* part_000:446, Array.isArray(response.data) ? response.data : [response.data]
Normalize(body) ==
  IF body.isArray THEN body.items ELSE <<body.items[1]>>

\* WebSocket.readyState === WebSocket.OPEN; a connection whose transport is
\* broken still reads OPEN until its error event is dispatched
ReadyOpen(cn) == cn \in {"open", "broken", "failed"}

IdleTask ==
  [pc |-> "idle", inCycle |-> FALSE, isInitial |-> FALSE, ctx |-> "none",
   authAttempt |-> 0, attempt |-> 0, token |-> NoToken, reauths |-> 0,
   retried |-> 0, fault |-> "none", result |-> "none"]

\* the async function has returned: its locals are gone, its outcome is kept
Done(result) == [IdleTask EXCEPT !.pc = "done", !.result = result]

\* the state after start-up, with the failures and connections a run may see
WsStart(tok, faults, conns) ==
  /\ authToken = tok
  /\ latestStockMap = EmptyMap
  /\ clients = << >>
  /\ conn = [c \in Clients |-> "none"]
  /\ inbox = [c \in Clients |-> << >>]
  /\ tasks = [t \in Tasks |-> IdleTask]
  /\ ticksDone = 0
  /\ faultsLeft = faults
  /\ connsLeft = conns

(***************************************************************************)
(* send: ws reports a failed send through the socket's error event, which  *)
(* the handler of part_000:647-650 receives; the call itself returns.      *)
(***************************************************************************)
\* client.send(message) on a socket that reads OPEN; st = [inbox, conn]
Send(c, msg, st) ==
  IF st.conn[c] = "open"
  THEN [inbox |-> [st.inbox EXCEPT ![c] = Append(@, msg)], conn |-> st.conn]
  ELSE [inbox |-> st.inbox, conn |-> [st.conn EXCEPT ![c] = "failed"]]

\* variant: the first failed send ends the forEach
RECURSIVE BroadcastLoopAbort(_, _, _, _)
BroadcastLoopAbort(cs, i, msg, st) ==
  IF i > Len(cs) THEN st
  ELSE IF ~ReadyOpen(st.conn[cs[i]])
       THEN BroadcastLoopAbort(cs, i + 1, msg, st)
       ELSE IF st.conn[cs[i]] = "open"
            THEN BroadcastLoopAbort(cs, i + 1, msg, Send(cs[i], msg, st))
            ELSE Send(cs[i], msg, st)

\* part_000:529-533, clients.forEach
RECURSIVE BroadcastLoop(_, _, _, _)
BroadcastLoop(cs, i, msg, st) ==
  IF i > Len(cs) THEN st
  ELSE IF ReadyOpen(st.conn[cs[i]])
       THEN BroadcastLoop(cs, i + 1, msg, Send(cs[i], msg, st))
       ELSE BroadcastLoop(cs, i + 1, msg, st)

\* variant: an array's splice(indexOf(c), 1), which drops the last element when
\* c is not there
SetDeleteSplice(cs, c) ==
  IF \E i \in 1..Len(cs) : cs[i] = c
  THEN SelectSeq(cs, LAMBDA x : x # c)
  ELSE SubSeq(cs, 1, Len(cs) - 1)

\* Set.prototype.delete
SetDelete(cs, c) == SelectSeq(cs, LAMBDA x : x # c)

(***************************************************************************)
(* The async functions, cut at their awaits.                               *)
(***************************************************************************)
\* part_000:382-389, getIDLCAuthToken is entered and posts its first request
IssueAuth(tk, ctx) ==
  [tk EXCEPT !.pc = "auth_wait", !.ctx = ctx, !.authAttempt = 1]

\* part_000:424-442, getAllStockCompanies(token): no token, or the first request
CallGetAll(tk, token) ==
  IF token = NoToken
  THEN Done("fetch_failed")
  ELSE [tk EXCEPT !.pc = "fetch_wait", !.attempt = 1, !.token = token]

\* variant: the cycle is never run as initial
StartCycleNotInitial(tk, isInitial, tok) ==
  LET tk1 == [tk EXCEPT !.inCycle = TRUE, !.isInitial = FALSE]
  IN IF tok = NoToken THEN IssueAuth(tk1, "pre") ELSE CallGetAll(tk1, tok)

\* variant: once a cycle has failed, later ticks start nothing
StartCycleHalted(tk, isInitial, tok) ==
  LET tk1 == [tk EXCEPT !.inCycle = TRUE, !.isInitial = isInitial]
  IN IF \E u \in Tasks : tasks[u].result \in {"auth_failed", "fetch_failed"}
     THEN tk
     ELSE IF tok = NoToken THEN IssueAuth(tk1, "pre") ELSE CallGetAll(tk1, tok)

\* part_000:481-491, fetchAndBroadcastStockData up to its first await
StartCycle(tk, isInitial, tok) ==
  LET tk1 == [tk EXCEPT !.inCycle = TRUE, !.isInitial = isInitial]
  IN IF tok = NoToken THEN IssueAuth(tk1, "pre") ELSE CallGetAll(tk1, tok)

\* variant: after a re-authentication the data request is always sent again
AfterAuthNoLimit(tk, ok, tok) ==
  CASE tk.ctx = "pre" ->
         IF ok THEN CallGetAll(tk, tok)
         ELSE Done("auth_failed")
    [] tk.ctx = "cold" ->
         IF ok THEN StartCycle(tk, TRUE, tok)
         ELSE Done("auth_failed")
    [] tk.ctx = "re" ->
         [tk EXCEPT !.pc = "fetch_backoff", !.token = tok]

\* the caller of getIDLCAuthToken resumes with its result; tok is authToken then
AfterAuth(tk, ok, tok) ==
  CASE tk.ctx = "pre" ->                      \* part_000:484-491
         IF ok THEN CallGetAll(tk, tok)
         ELSE Done("auth_failed")
    [] tk.ctx = "cold" ->                     \* part_000:662-665
         IF ok THEN StartCycle(tk, TRUE, tok)
         ELSE Done("auth_failed")
    [] tk.ctx = "re" ->                       \* part_000:466-474
         IF tk.attempt < RetryCount
         THEN [tk EXCEPT !.pc = "fetch_backoff", !.token = tok]
         ELSE Done("fetch_failed")

\* part_000:660-662, the start-up timer fires
StartupTimer ==
  /\ tasks["cold"].pc = "idle"
  /\ tasks' = [tasks EXCEPT !["cold"] = IssueAuth(@, "cold")]
  /\ UNCHANGED <<authToken, latestStockMap, clients, conn, inbox, ticksDone,
                 faultsLeft, connsLeft>>
  /\ UNCHANGED notWs

\* part_000:654-657, a cron tick
Tick ==
  /\ ticksDone < Len(TickOrder)
  /\ ticksDone' = ticksDone + 1
  /\ tasks' = [tasks EXCEPT ![TickOrder[ticksDone + 1]] = StartCycle(@, FALSE, authToken)]
  /\ UNCHANGED <<authToken, latestStockMap, clients, conn, inbox, faultsLeft, connsLeft>>
  /\ UNCHANGED notWs

\* part_000:391-394, the auth response carries resultCode "200"
AuthOk(t) ==
  /\ tasks[t].pc = "auth_wait"
  /\ authToken' = Token
  /\ tasks' = [tasks EXCEPT ![t] = AfterAuth(@, TRUE, Token)]
  /\ UNCHANGED <<latestStockMap, clients, conn, inbox, ticksDone, faultsLeft, connsLeft>>
  /\ UNCHANGED notWs

\* variant: every failed attempt but the last is followed by another one
AuthFailRetryAll(t, kind) ==
  /\ tasks[t].pc = "auth_wait"
  /\ faultsLeft > 0
  /\ faultsLeft' = faultsLeft - 1
  /\ tasks' = [tasks EXCEPT ![t] =
       IF @.authAttempt < RetryCount
       THEN [@ EXCEPT !.pc = "auth_backoff", !.fault = kind]
       ELSE AfterAuth(@, FALSE, authToken)]
  /\ UNCHANGED <<authToken, latestStockMap, clients, conn, inbox, ticksDone, connsLeft>>
  /\ UNCHANGED notWs

\* variant: a failed attempt is always followed by another one
AuthFailNoLimit(t, kind) ==
  /\ tasks[t].pc = "auth_wait"
  /\ faultsLeft > 0
  /\ faultsLeft' = faultsLeft - 1
  /\ tasks' = [tasks EXCEPT ![t] =
       IF kind \in {"rejected", "transient"}
       THEN [@ EXCEPT !.pc = "auth_backoff", !.fault = kind]
       ELSE AfterAuth(@, FALSE, authToken)]
  /\ UNCHANGED <<authToken, latestStockMap, clients, conn, inbox, ticksDone, connsLeft>>
  /\ UNCHANGED notWs

\* part_000:395-417, the auth request fails: another resultCode ("rejected"),
\* a timeout or reset ("transient"), any other error ("error")
AuthFail(t, kind) ==
  /\ tasks[t].pc = "auth_wait"
  /\ faultsLeft > 0
  /\ faultsLeft' = faultsLeft - 1
  /\ tasks' = [tasks EXCEPT ![t] =
       IF kind \in {"rejected", "transient"} /\ @.authAttempt < RetryCount
       THEN [@ EXCEPT !.pc = "auth_backoff", !.fault = kind]
       ELSE AfterAuth(@, FALSE, authToken)]
  /\ UNCHANGED <<authToken, latestStockMap, clients, conn, inbox, ticksDone, connsLeft>>
  /\ UNCHANGED notWs

\* part_000:401 and 413, the backoff ends and the next attempt is posted
AuthBackoffDone(t) ==
  /\ tasks[t].pc = "auth_backoff"
  /\ tasks' = [tasks EXCEPT ![t] = [@ EXCEPT !.pc = "auth_wait",
                                             !.authAttempt = @ + 1,
                                             !.fault = "none"]]
  /\ UNCHANGED <<authToken, latestStockMap, clients, conn, inbox, ticksDone,
                 faultsLeft, connsLeft>>
  /\ UNCHANGED notWs

\* variant: every broadcast carries the whole snapshot
MessageAlwaysFull(isInitial, newStockMap, updates) ==
  [type |-> IF isInitial THEN "stock_data" ELSE "stock_update",
   data |-> MapValues(newStockMap)]

\* part_000:523-527, the message of a broadcast (its timestamp left out)
Message(isInitial, newStockMap, updates) ==
  [type |-> IF isInitial THEN "stock_data" ELSE "stock_update",
   data |-> IF isInitial THEN MapValues(newStockMap) ELSE updates]

\* part_000:492-539, the data arrived: diff, store, broadcast
FetchData(t, body) ==
  /\ tasks[t].pc = "fetch_wait"
  /\ LET stockData == Normalize(body)
         isInitial == tasks[t].isInitial
         r == ComputeUpdates(latestStockMap, stockData, isInitial)
         message == Message(isInitial, r.newStockMap, r.updates)
         st == BroadcastLoop(clients, 1, message, [inbox |-> inbox, conn |-> conn])
     IN /\ latestStockMap' = r.newStockMap
        /\ IF Len(r.updates) > 0 \/ isInitial
           THEN /\ inbox' = st.inbox
                /\ conn' = st.conn
                /\ tasks' = [tasks EXCEPT ![t] = Done("broadcast")]
           ELSE /\ UNCHANGED <<inbox, conn>>
                /\ tasks' = [tasks EXCEPT ![t] = Done("no_changes")]
  /\ UNCHANGED <<authToken, clients, ticksDone, faultsLeft, connsLeft>>
  /\ UNCHANGED notWs

\* part_000:447-451, a response without data: the next attempt follows at once
FetchEmpty(t) ==
  /\ tasks[t].pc = "fetch_wait"
  /\ faultsLeft > 0
  /\ faultsLeft' = faultsLeft - 1
  /\ tasks' = [tasks EXCEPT ![t] =
       IF @.attempt < RetryCount
       THEN [@ EXCEPT !.attempt = @ + 1,
                      !.retried = IF tasks[t].reauths > 0 THEN @ + 1 ELSE @]
       ELSE Done("fetch_failed")]
  /\ UNCHANGED <<authToken, latestStockMap, clients, conn, inbox, ticksDone, connsLeft>>
  /\ UNCHANGED notWs

\* part_000:464-468, the data request is answered 401: getIDLCAuthToken is called
Fetch401(t) ==
  /\ tasks[t].pc = "fetch_wait"
  /\ faultsLeft > 0
  /\ faultsLeft' = faultsLeft - 1
  /\ tasks' = [tasks EXCEPT ![t] = IssueAuth([@ EXCEPT !.reauths = @ + 1], "re")]
  /\ UNCHANGED <<authToken, latestStockMap, clients, conn, inbox, ticksDone, connsLeft>>
  /\ UNCHANGED notWs

\* variant: a transient failure is always followed by another data request
FetchFailNoLimit(t, kind) ==
  /\ tasks[t].pc = "fetch_wait"
  /\ faultsLeft > 0
  /\ faultsLeft' = faultsLeft - 1
  /\ tasks' = [tasks EXCEPT ![t] =
       IF kind = "transient"
       THEN [@ EXCEPT !.pc = "fetch_backoff"]
       ELSE Done("fetch_failed")]
  /\ UNCHANGED <<authToken, latestStockMap, clients, conn, inbox, ticksDone, connsLeft>>
  /\ UNCHANGED notWs

\* variant: a call that ends in failure empties the stored snapshot
FetchFailClears(t, kind) ==
  /\ tasks[t].pc = "fetch_wait"
  /\ faultsLeft > 0
  /\ faultsLeft' = faultsLeft - 1
  /\ tasks' = [tasks EXCEPT ![t] =
       IF kind = "transient" /\ @.attempt < RetryCount
       THEN [@ EXCEPT !.pc = "fetch_backoff"]
       ELSE Done("fetch_failed")]
  /\ latestStockMap' = IF kind = "transient" /\ tasks[t].attempt < RetryCount
                       THEN latestStockMap
                       ELSE EmptyMap
  /\ UNCHANGED <<authToken, clients, conn, inbox, ticksDone, connsLeft>>
  /\ UNCHANGED notWs

\* part_000:457-474, a timeout or reset ("transient") or any other error ("error")
FetchFail(t, kind) ==
  /\ tasks[t].pc = "fetch_wait"
  /\ faultsLeft > 0
  /\ faultsLeft' = faultsLeft - 1
  /\ tasks' = [tasks EXCEPT ![t] =
       IF kind = "transient" /\ @.attempt < RetryCount
       THEN [@ EXCEPT !.pc = "fetch_backoff"]
       ELSE Done("fetch_failed")]
  /\ UNCHANGED <<authToken, latestStockMap, clients, conn, inbox, ticksDone, connsLeft>>
  /\ UNCHANGED notWs

\* part_000:470-471, the backoff ends and the next data request is sent
FetchBackoffDone(t) ==
  /\ tasks[t].pc = "fetch_backoff"
  /\ tasks' = [tasks EXCEPT ![t] = [@ EXCEPT !.pc = "fetch_wait", !.attempt = @ + 1,
                                             !.retried = IF tasks[t].reauths > 0
                                                         THEN @ + 1 ELSE @]]
  /\ UNCHANGED <<authToken, latestStockMap, clients, conn, inbox, ticksDone,
                 faultsLeft, connsLeft>>
  /\ UNCHANGED notWs

(***************************************************************************)
(* Subscribers.                                                            *)
(***************************************************************************)
\* variant: the new subscriber is registered and sent nothing
ConnSendFullNone(c, st) == st

\* part_000:629-636, the full snapshot sent to the new subscriber
ConnSendFull(c, st) ==
  Send(c, [type |-> "stock_data", data |-> MapValues(latestStockMap)], st)

\* part_000:608-621, the answer of GET /api/latest-stock
LatestStock ==
  IF MapSize(latestStockMap) > 0
  THEN [code |-> 200, status |-> "success", data |-> MapValues(latestStockMap)]
  ELSE [code |-> 404, status |-> "error", data |-> << >>]

\* part_000:624-640, wss.on("connection")
Connect(c) ==
  /\ conn[c] = "none"
  /\ connsLeft > 0
  /\ connsLeft' = connsLeft - 1
  /\ clients' = Append(clients, c)
  /\ IF MapSize(latestStockMap) > 0
     THEN LET st == ConnSendFull(c, [inbox |-> inbox, conn |-> [conn EXCEPT ![c] = "open"]])
          IN /\ inbox' = st.inbox
             /\ conn' = st.conn
             /\ UNCHANGED tasks
     ELSE /\ conn' = [conn EXCEPT ![c] = "open"]
          /\ tasks' = [tasks EXCEPT ![c] = StartCycle(@, TRUE, authToken)]
          /\ UNCHANGED inbox
  /\ UNCHANGED <<authToken, latestStockMap, ticksDone, faultsLeft>>
  /\ UNCHANGED notWs

\* the transport of an open connection breaks; the server has not noticed
TransportBreak(c) ==
  /\ conn[c] = "open"
  /\ conn' = [conn EXCEPT ![c] = "broken"]
  /\ UNCHANGED <<authToken, latestStockMap, clients, inbox, tasks, ticksDone,
                 faultsLeft, connsLeft>>
  /\ UNCHANGED notWs

\* the peer closes: readyState leaves OPEN, the close event is still to come
PeerClose(c) ==
  /\ conn[c] = "open"
  /\ conn' = [conn EXCEPT ![c] = "closing"]
  /\ UNCHANGED <<authToken, latestStockMap, clients, inbox, tasks, ticksDone,
                 faultsLeft, connsLeft>>
  /\ UNCHANGED notWs

\* part_000:647-650, ws.on("error")
WsError(c) ==
  /\ conn[c] \in {"broken", "failed"}
  /\ clients' = SetDelete(clients, c)
  /\ conn' = [conn EXCEPT ![c] = "closing"]
  /\ UNCHANGED <<authToken, latestStockMap, inbox, tasks, ticksDone, faultsLeft,
                 connsLeft>>
  /\ UNCHANGED notWs

\* part_000:642-645, ws.on("close")
WsClose(c) ==
  /\ conn[c] = "closing"
  /\ clients' = SetDelete(clients, c)
  /\ conn' = [conn EXCEPT ![c] = "closed"]
  /\ UNCHANGED <<authToken, latestStockMap, inbox, tasks, ticksDone, faultsLeft,
                 connsLeft>>
  /\ UNCHANGED notWs

(***************************************************************************)
(* The Socket.IO server (part_001).                                        *)
(***************************************************************************)
\* upstream failures the model lets the Socket.IO server see
MaxIoFaults == 4

\* the last reading of the clock
MaxTime == 3

\* part_001:132, the token lifetime of 55 minutes, counted in clock steps
TokenTtl == 2

\* part_001:105-110, the payload formats tried in turn
NumPayloads == 4

\* the sockets that may connect, and the calls: initialFetch (part_001:272-283),
\* a request-refresh (part_001:253-256) and POST /auth (part_001:68-79)
SocketIds == {"s1"}
FetchCalls == {"initial", "refresh"}
IoCalls == FetchCalls \cup {"auth"}

\* the bodies the upstream answers the data request with: an array, an object
\* with a result array, a single record
IoBodies ==
  {[shape |-> "array", items |-> <<A10>>],
   [shape |-> "array", items |-> <<A11, B10>>],
   [shape |-> "result", items |-> <<A10, B10>>],
   [shape |-> "object", items |-> <<B10>>]}

\* part_001:190-192
IoNormalize(body) ==
  IF body.shape = "array" THEN body.items
  ELSE IF body.shape = "result" THEN body.items
  ELSE <<body.items[1]>>

IoIdleTask ==
  [pc |-> "idle", payload |-> 0, token |-> NoToken, fromCache |-> FALSE,
   result |-> "none"]

IoDone(result) == [IoIdleTask EXCEPT !.pc = "done", !.result = result]

IoStart(faults) ==
  /\ ioAuthToken = NoToken
  /\ ioExpiry = 0
  /\ ioNow = 1
  /\ ioPrev = EmptyMap
  /\ ioSockets = {}
  /\ ioInbox = [s \in SocketIds |-> << >>]
  /\ ioTasks = [t \in IoCalls |-> IoIdleTask]
  /\ ioFaultsLeft = faults
  /\ ioLastAuth = "none"
  /\ ioRejected = FALSE

IoIdle == IoStart(0)

\* io.emit: the event goes to every connected socket
IoEmit(inb, ev) ==
  [s \in SocketIds |-> IF s \in ioSockets THEN Append(inb[s], ev) ELSE inb[s]]

\* variant: the expiry comparison is reversed
IoCacheHitReversed(tok, forceRefresh, expiry, time) ==
  tok # NoToken /\ ~forceRefresh /\ expiry # 0 /\ time > expiry

\* part_001:97, the stored token is returned
IoCacheHit(tok, forceRefresh, expiry, time) ==
  tok # NoToken /\ ~forceRefresh /\ expiry # 0 /\ time < expiry

\* part_001:96-119, getAuthToken up to its return or its first request
IoGetAuthToken(tk, forceRefresh) ==
  IF IoCacheHit(ioAuthToken, forceRefresh, ioExpiry, ioNow)
  THEN [tk EXCEPT !.pc = "have_token", !.token = ioAuthToken, !.fromCache = TRUE]
  ELSE [tk EXCEPT !.pc = "auth_wait", !.payload = 1]

\* part_001:167-178, fetchStockData with its token: the data request is sent
IoSendDataRequest(tk) == [tk EXCEPT !.pc = "fetch_wait"]

\* fetchStockData is called (initialFetch, or request-refresh of a socket)
IoCallFetch(t) ==
  /\ t \in FetchCalls
  /\ ioTasks[t].pc = "idle"
  /\ t = "refresh" => ioSockets # {}
  /\ LET tk == IoGetAuthToken(ioTasks[t], FALSE)
     IN /\ ioTasks' = [ioTasks EXCEPT ![t] =
          IF tk.pc = "have_token" THEN IoSendDataRequest(tk) ELSE tk]
        /\ ioLastAuth' = IF tk.pc = "have_token" THEN "ok" ELSE ioLastAuth
  /\ UNCHANGED <<ioAuthToken, ioExpiry, ioNow, ioPrev, ioSockets, ioInbox, ioFaultsLeft,
                 ioRejected>>
  /\ UNCHANGED notIo

\* part_001:68-70, POST /auth calls getAuthToken(true)
IoCallAuth ==
  /\ ioTasks["auth"].pc = "idle"
  /\ LET tk == IoGetAuthToken(ioTasks["auth"], TRUE)
     IN /\ ioTasks' = [ioTasks EXCEPT !["auth"] =
          IF tk.pc = "have_token" THEN IoDone("ok") ELSE tk]
        /\ ioLastAuth' = IF tk.pc = "have_token" THEN "ok" ELSE ioLastAuth
  /\ UNCHANGED <<ioAuthToken, ioExpiry, ioNow, ioPrev, ioSockets, ioInbox, ioFaultsLeft,
                 ioRejected>>
  /\ UNCHANGED notIo

\* part_001:122-141, a payload format is answered with a token
IoAuthOk(t) ==
  /\ ioTasks[t].pc = "auth_wait"
  /\ ioAuthToken' = Token
  /\ ioExpiry' = ioNow + TokenTtl
  /\ ioLastAuth' = "ok"
  /\ ioRejected' = FALSE
  /\ ioInbox' = IoEmit(ioInbox, [event |-> "auth-status", data |-> "authenticated"])
  /\ ioTasks' = [ioTasks EXCEPT ![t] =
       IF t \in FetchCalls
       THEN IoSendDataRequest([@ EXCEPT !.token = Token])
       ELSE IoDone("ok")]
  /\ UNCHANGED <<ioNow, ioPrev, ioSockets, ioFaultsLeft>>
  /\ UNCHANGED notIo

\* part_001:143-161, a payload format fails or is answered without a token:
\* the next format is tried, and after the last one null is returned; the
\* fetchStockData that asked throws and reports (part_001:168-170, 222-231)
IoAuthFail(t) ==
  /\ ioTasks[t].pc = "auth_wait"
  /\ ioFaultsLeft > 0
  /\ ioFaultsLeft' = ioFaultsLeft - 1
  /\ IF ioTasks[t].payload < NumPayloads
     THEN /\ ioTasks' = [ioTasks EXCEPT ![t] = [@ EXCEPT !.payload = @ + 1]]
          /\ UNCHANGED <<ioInbox, ioLastAuth>>
     ELSE LET inb == IoEmit(ioInbox, [event |-> "auth-status", data |-> "error"])
          IN /\ ioInbox' = IF t \in FetchCalls
                           THEN IoEmit(inb, [event |-> "fetch-status", data |-> "error"])
                           ELSE inb
             /\ ioTasks' = [ioTasks EXCEPT ![t] = IoDone("auth_failed")]
             /\ ioLastAuth' = "failed"
  /\ UNCHANGED <<ioAuthToken, ioExpiry, ioNow, ioPrev, ioSockets, ioRejected>>
  /\ UNCHANGED notIo

\* part_001:186-220, the data arrived: diff, store, emit
IoFetchData(t, body) ==
  /\ ioTasks[t].pc = "fetch_wait"
  /\ LET r == IoComputeUpdates(ioPrev, IoNormalize(body))
     IN /\ ioPrev' = r.previousStockData
        /\ ioInbox' = IF Len(r.updates) > 0
                      THEN IoEmit(ioInbox, [event |-> "stock-updates", data |-> r.updates])
                      ELSE ioInbox
  /\ ioTasks' = [ioTasks EXCEPT ![t] = IoDone("ok")]
  /\ UNCHANGED <<ioAuthToken, ioExpiry, ioNow, ioSockets, ioFaultsLeft, ioLastAuth,
                 ioRejected>>
  /\ UNCHANGED notIo

\* variant: a failed data request re-sends the stored records
IoFetchFailResend(t) ==
  /\ ioTasks[t].pc = "fetch_wait"
  /\ ioFaultsLeft > 0
  /\ ioFaultsLeft' = ioFaultsLeft - 1
  /\ ioInbox' = IoEmit(ioInbox, [event |-> "stock-updates", data |-> MapValues(ioPrev)])
  /\ ioTasks' = [ioTasks EXCEPT ![t] = IoDone("fetch_failed")]
  /\ UNCHANGED <<ioAuthToken, ioExpiry, ioNow, ioPrev, ioSockets, ioLastAuth, ioRejected>>
  /\ UNCHANGED notIo

\* part_001:222-231, the data request fails (a timeout, or a status outside 2xx
\* other than 401, which axios rejects)
IoFetchFail(t) ==
  /\ ioTasks[t].pc = "fetch_wait"
  /\ ioFaultsLeft > 0
  /\ ioFaultsLeft' = ioFaultsLeft - 1
  /\ ioInbox' = IoEmit(ioInbox, [event |-> "fetch-status", data |-> "error"])
  /\ ioTasks' = [ioTasks EXCEPT ![t] = IoDone("fetch_failed")]
  /\ UNCHANGED <<ioAuthToken, ioExpiry, ioNow, ioPrev, ioSockets, ioLastAuth, ioRejected>>
  /\ UNCHANGED notIo

\* part_001:172-178 and 222-231, the data request is answered 401: axios rejects
\* the status, so the catch runs as for any other failure and authToken stays
IoFetch401(t) ==
  /\ ioTasks[t].pc = "fetch_wait"
  /\ ioFaultsLeft > 0
  /\ ioFaultsLeft' = ioFaultsLeft - 1
  /\ ioRejected' = TRUE
  /\ ioInbox' = IoEmit(ioInbox, [event |-> "fetch-status", data |-> "error"])
  /\ ioTasks' = [ioTasks EXCEPT ![t] = IoDone("fetch_failed")]
  /\ UNCHANGED <<ioAuthToken, ioExpiry, ioNow, ioPrev, ioSockets, ioLastAuth>>
  /\ UNCHANGED notIo

\* part_001:61 and 248, authToken ? 'present' : 'missing'
IoTokenReported == IF ioAuthToken # NoToken THEN "present" ELSE "missing"

\* part_001:236-251, io.on('connection')
IoConnect(s) ==
  /\ s \notin ioSockets
  /\ ioInbox[s] = << >>
  /\ ioSockets' = ioSockets \cup {s}
  /\ LET first == IF Len(ioPrev) > 0
                  THEN <<[event |-> "stock-updates", data |-> MapValues(ioPrev)]>>
                  ELSE << >>
         status == [event |-> "server-status",
                    data |-> [authToken |-> IoTokenReported,
                              totalStocks |-> Len(ioPrev)]]
     IN ioInbox' = [ioInbox EXCEPT ![s] = first \o <<status>>]
  /\ UNCHANGED <<ioAuthToken, ioExpiry, ioNow, ioPrev, ioTasks, ioFaultsLeft, ioLastAuth,
                 ioRejected>>
  /\ UNCHANGED notIo

\* time passes
IoAdvance ==
  /\ ioNow < MaxTime
  /\ ioNow' = ioNow + 1
  /\ UNCHANGED <<ioAuthToken, ioExpiry, ioPrev, ioSockets, ioInbox, ioTasks, ioFaultsLeft,
                 ioLastAuth, ioRejected>>
  /\ UNCHANGED notIo

(***************************************************************************)
(* Specifications.                                                         *)
(***************************************************************************)
WsIdle == WsStart(NoToken, 0, 0)

DiffIdle ==
  /\ dPrev = EmptyMap /\ dSeq = << >> /\ dInitial = FALSE
  /\ dPhase = "off" /\ dUpdates = << >> /\ dStore = EmptyMap

\* the feed before any data request is answered
FeedIdle == upstream = 1 /\ answered = [t \in Tasks |-> 0]

\* the WebSocket server's callbacks against a failing upstream, no subscriber
Init == WsStart(NoToken, MaxFaults, 0) /\ IoIdle /\ DiffIdle /\ FeedIdle

Next ==
  \/ StartupTimer
  \/ Tick
  \/ \E t \in Tasks : AuthOk(t)
  \/ \E t \in Tasks, kind \in {"rejected", "transient", "error"} : AuthFail(t, kind)
  \/ \E t \in Tasks : AuthBackoffDone(t)
  \/ \E t \in Tasks, body \in Bodies : FetchData(t, body)
  \/ \E t \in Tasks : FetchEmpty(t)
  \/ \E t \in Tasks : Fetch401(t)
  \/ \E t \in Tasks, kind \in {"transient", "error"} : FetchFail(t, kind)
  \/ \E t \in Tasks : FetchBackoffDone(t)

Spec == Init /\ [][Next]_vars

\* the start-up timer's callback alone, against an upstream that fails more
\* often than one call retries
MaxRetryFaults == 6

RetryInit == WsStart(NoToken, MaxRetryFaults, 0) /\ IoIdle /\ DiffIdle /\ FeedIdle

RetryNext ==
  \/ StartupTimer
  \/ \E t \in Tasks : AuthOk(t)
  \/ \E t \in Tasks, kind \in {"rejected", "transient", "error"} : AuthFail(t, kind)
  \/ \E t \in Tasks : AuthBackoffDone(t)
  \/ \E t \in Tasks, body \in Bodies : FetchData(t, body)
  \/ \E t \in Tasks : FetchEmpty(t)
  \/ \E t \in Tasks : Fetch401(t)
  \/ \E t \in Tasks, kind \in {"transient", "error"} : FetchFail(t, kind)
  \/ \E t \in Tasks : FetchBackoffDone(t)

SpecRetry == RetryInit /\ [][RetryNext]_vars

\* the WebSocket server with subscribers, once a token is stored, against an
\* upstream that answers
HubInit == WsStart(Token, 0, Cardinality(Clients)) /\ IoIdle /\ DiffIdle /\ FeedIdle

HubNext ==
  \/ Tick
  \/ \E t \in Tasks, body \in Bodies : FetchData(t, body)
  \/ \E c \in Clients : Connect(c)
  \/ \E c \in Clients : TransportBreak(c)
  \/ \E c \in Clients : PeerClose(c)
  \/ \E c \in Clients : WsError(c)
  \/ \E c \in Clients : WsClose(c)

SpecHub == HubInit /\ [][HubNext]_vars

\* the WebSocket server with one subscriber against a failing upstream
OutageInit == WsStart(NoToken, MaxFaults, 1) /\ IoIdle /\ DiffIdle /\ FeedIdle

OutageNext ==
  \/ StartupTimer
  \/ Tick
  \/ \E t \in Tasks : AuthOk(t)
  \/ \E t \in Tasks, kind \in {"rejected", "transient", "error"} : AuthFail(t, kind)
  \/ \E t \in Tasks : AuthBackoffDone(t)
  \/ \E t \in Tasks, body \in Bodies : FetchData(t, body)
  \/ \E t \in Tasks : FetchEmpty(t)
  \/ \E t \in Tasks : Fetch401(t)
  \/ \E t \in Tasks, kind \in {"transient", "error"} : FetchFail(t, kind)
  \/ \E t \in Tasks : FetchBackoffDone(t)
  \/ \E c \in Clients : Connect(c)

SpecOutage == OutageInit /\ [][OutageNext]_vars

\* one cycle alone, against an upstream that may fail every request the
\* cycle can make: more failures than one cycle can meet
MaxCycleFaults == 35

CycleInit == WsStart(NoToken, MaxCycleFaults, 0) /\ IoIdle /\ DiffIdle /\ FeedIdle

\* part_000:654-657, the first cron tick
FirstTick == ticksDone = 0 /\ Tick

CycleNext ==
  \/ FirstTick
  \/ \E t \in Tasks : AuthOk(t)
  \/ \E t \in Tasks, kind \in {"rejected", "transient", "error"} : AuthFail(t, kind)
  \/ \E t \in Tasks : AuthBackoffDone(t)
  \/ \E t \in Tasks, body \in Bodies : FetchData(t, body)
  \/ \E t \in Tasks : FetchEmpty(t)
  \/ \E t \in Tasks : Fetch401(t)
  \/ \E t \in Tasks, kind \in {"transient", "error"} : FetchFail(t, kind)
  \/ \E t \in Tasks : FetchBackoffDone(t)

\* every pending request is answered and every backoff timer fires
SpecCycle == CycleInit /\ [][CycleNext]_vars /\ WF_vars(CycleNext)

\* the Socket.IO server
IoInit == IoStart(MaxIoFaults) /\ WsIdle /\ DiffIdle /\ FeedIdle

IoNext ==
  \/ \E t \in FetchCalls : IoCallFetch(t)
  \/ IoCallAuth
  \/ \E t \in IoCalls : IoAuthOk(t)
  \/ \E t \in IoCalls : IoAuthFail(t)
  \/ \E t \in IoCalls, body \in IoBodies : IoFetchData(t, body)
  \/ \E t \in IoCalls : IoFetchFail(t)
  \/ \E t \in IoCalls : IoFetch401(t)
  \/ \E s \in SocketIds : IoConnect(s)
  \/ IoAdvance

SpecIO == IoInit /\ [][IoNext]_vars

\* the data the upstream holds, version after version
Feed ==
  <<[isArray |-> TRUE, items |-> <<A10>>],
    [isArray |-> TRUE, items |-> <<A11, B10>>],
    [isArray |-> FALSE, items |-> <<B10>>]>>

\* the upstream's data changes
Publish ==
  /\ upstream < Len(Feed)
  /\ upstream' = upstream + 1
  /\ UNCHANGED <<answered, wsVars, ioVars, diffVars>>

\* part_000:433-442, the upstream answers the data request of t with the data
\* it holds now; the response is on its way
Answer(t) ==
  /\ tasks[t].pc = "fetch_wait"
  /\ answered[t] = 0
  /\ answered' = [answered EXCEPT ![t] = upstream]
  /\ UNCHANGED <<upstream, wsVars, ioVars, diffVars>>

\* part_000:445-447 and 492-539, the response arrives and the cycle goes on
Arrive(t) ==
  /\ answered[t] # 0
  /\ FetchData(t, Feed[answered[t]])

\* overlapping cycles against a feed that changes: the token is stored, one
\* subscriber may connect, no failures
OrderInit == WsStart(Token, 0, 1) /\ IoIdle /\ DiffIdle /\ FeedIdle

OrderNext ==
  \/ Tick
  \/ \E c \in Clients : Connect(c)
  \/ Publish
  \/ \E t \in Tasks : Answer(t)
  \/ \E t \in Tasks : Arrive(t)

SpecOrder == OrderInit /\ [][OrderNext]_vars

\* the two diffs on drawn inputs
DiffStart == DiffInit /\ WsStart(NoToken, 0, 0) /\ IoIdle /\ FeedIdle

SpecDiff == DiffStart /\ [][DiffNext]_vars

(***************************************************************************)
(* Properties of the diffs.                                                *)
(***************************************************************************)
\* the records of a response, as the servers store them
Mapped(seq) == [i \in 1..Len(seq) |-> MappedItem(seq[i])]

IoMapped(seq) == [i \in 1..Len(seq) |-> IoStock(seq[i])]

Range(seq) == {seq[i] : i \in 1..Len(seq)}

\* the records of the drawn response, as the diff applied stores them
Fetched == IF dPhase = "io" THEN IoMapped(dSeq) ELSE Mapped(dSeq)

DistinctKeys(seq) ==
  \A i, j \in 1..Len(seq) : i # j => seq[i].dseCompanyCode # seq[j].dseCompanyCode

\* a record of the response is new or differs from the snapshot on a tracked field
Changed(prev, m) ==
  \/ ~MapHas(prev, m.trading_code)
  \/ MapGet(prev, m.trading_code).last_trading_price # m.last_trading_price
  \/ MapGet(prev, m.trading_code).change # m.change
  \/ MapGet(prev, m.trading_code).change_percent # m.change_percent

DiffApplied == dPhase \in {"ws", "io"}

\* the response holds the same records as the stored snapshot
Stored == IF dPhase = "io" THEN IoView(dPrev) ELSE dPrev

SameAsStored == DistinctKeys(dSeq) /\ Range(Fetched) = Range(Stored)

\* C1: in a non-initial cycle the updates are exactly the records of the
\* response whose key is absent from the previous snapshot or whose price,
\* change or change-percent differs from the previous record of that key.
C1_UpdatesExactlyChanged ==
  (DiffApplied /\ ~dInitial) =>
    Range(dUpdates) = {m \in Range(Fetched) : Changed(dPrev, m)}

\* C8: with an empty previous snapshot the updates are all the records of the
\* fetched snapshot, in the order received (a snapshot holds one record per
\* key; fetchAndBroadcastStockData reports all records of any response).
C8_ColdStartAll ==
  /\ (dPhase = "ws" /\ dPrev = EmptyMap) => dUpdates = Mapped(dSeq)
  /\ (dPhase = "io" /\ dPrev = EmptyMap /\ DistinctKeys(dSeq)) => dUpdates = IoMapped(dSeq)

\* C24: the updates of a cycle are the reported records of the response in
\* the order of the response, each as often as the response holds it: the
\* response with the unreported records struck out.
C24_UpdatesInResponseOrder ==
  dPhase = "ws" =>
    dUpdates = SelectSeq(Mapped(dSeq), LAMBDA m : dInitial \/ Changed(dPrev, m))

\* a response not in key order whose two records are both reported over a
\* stored snapshot
C24_Witness ==
  /\ dPhase = "ws"
  /\ ~dInitial
  /\ dPrev # EmptyMap
  /\ Len(dSeq) = 2
  /\ KeyIndex(dSeq[1].dseCompanyCode) > KeyIndex(dSeq[2].dseCompanyCode)
  /\ Len(dUpdates) = 2

\* C1 on fetchAndBroadcastStockData alone
UpdatesExactlyChangedWs ==
  (dPhase = "ws" /\ ~dInitial) =>
    Range(dUpdates) = {m \in Range(Mapped(dSeq)) : Changed(dPrev, m)}

C8_Witness ==
  /\ dPhase = "ws" /\ dPrev = EmptyMap /\ ~dInitial
  /\ Len(dSeq) = 2 /\ dUpdates = Mapped(dSeq)

\* C9 as stated: a cycle whose fetched data equals the stored snapshot
\* computes no update.
C9_Idempotent ==
  (DiffApplied /\ SameAsStored) => dUpdates = << >>

\* C9 amended: a cycle that is not run as initial and whose fetched data
\* equals the stored snapshot computes no update.
C9_IdempotentNonInitial ==
  (DiffApplied /\ ~dInitial /\ SameAsStored) => dUpdates = << >>

C9_Witness ==
  /\ dPhase = "ws" /\ ~dInitial /\ SameAsStored
  /\ Len(dSeq) = 2 /\ dUpdates = << >>

\* the record of the response that a store keyed by record key holds for the
\* key of the i-th record: the last one of that key
LastOfKey(seq, i) ==
  \A j \in 1..Len(seq) : seq[j].trading_code = seq[i].trading_code => j <= i

\* the store m holds exactly the records of the response seq, one per key
HoldsExactly(m, seq) ==
  /\ \A i, j \in 1..Len(m) : i # j => m[i].trading_code # m[j].trading_code
  /\ Range(m) = {seq[i] : i \in {k \in 1..Len(seq) : LastOfKey(seq, k)}}

\* C16: after a cycle the store holds exactly the records of that cycle's
\* response, keyed by record key; a key the response lacks is not in the store.
C16_StoreIsResponse ==
  DiffApplied => HoldsExactly(dStore, Fetched)

\* C16 on fetchAndBroadcastStockData alone
StoreIsResponseWs ==
  dPhase = "ws" => HoldsExactly(dStore, Mapped(dSeq)) 

(***************************************************************************)
(* Properties of the callbacks against the upstream (Spec).                *)
(***************************************************************************)
\* the callbacks inside getIDLCAuthToken: a request in flight or a backoff
Authenticating == {t \in Tasks : tasks[t].pc \in {"auth_wait", "auth_backoff"}}

\* the callbacks inside fetchAndBroadcastStockData
InCycle == {t \in Tasks : tasks[t].inCycle}

\* C2: at most one authentication attempt runs at any time (single-flight).
C2_SingleFlight == Cardinality(Authenticating) <= 1

\* C3: within one fetch call a 401 leads to one re-authentication and one
\* retried data request, never to a second re-authentication or a further
\* data request.
C3_OneReauthOneRetry ==
  \A t \in Tasks : tasks[t].reauths <= 1 /\ tasks[t].retried <= 1

\* C4: no cycle started by a timer tick is in progress together with another
\* cycle.
C4_NoOverlap ==
  \A t \in TickTasks : \A u \in Tasks \ {t} : ~(t \in InCycle /\ u \in InCycle)

\* an initial cycle awaits its data while a snapshot is already stored (a tick's
\* cycle finished while the start-up timer's authentication was pending)
InitialCycleOverSnapshot ==
  \E t \in Tasks :
    tasks[t].pc = "fetch_wait" /\ tasks[t].isInitial /\ MapSize(latestStockMap) > 0

\* a cycle that starts while a token is stored goes to the data request at once
WsStoredTokenNoAuth ==
  [][\A t \in TickTasks :
       (tasks[t].pc = "idle" /\ tasks'[t].pc # "idle" /\ authToken # NoToken)
         => (tasks'[t].pc = "fetch_wait" /\ tasks'[t].token = authToken)]_vars

\* the callbacks whose cycle or start-up authentication ended in failure
Failed == {t \in Tasks : tasks[t].result \in {"auth_failed", "fetch_failed"}}

\* the cron tick that fires next
NextTick == TickOrder[ticksDone + 1]

\* C14: whatever cycles have failed, the next tick can fire, and the cycle it
\* starts posts its own first auth request (no token stored) or sends its own
\* first data request (token stored).
C14_SchedulerGoesOn ==
  /\ [](ticksDone < Len(TickOrder) => ENABLED Tick)
  /\ [][ticksDone' = ticksDone + 1
          => LET tk == tasks'[NextTick]
             IN /\ tk.inCycle
                /\ tk.reauths = 0
                /\ IF authToken = NoToken
                   THEN tk.pc = "auth_wait" /\ tk.authAttempt = 1
                   ELSE tk.pc = "fetch_wait" /\ tk.attempt = 1
                          /\ tk.token = authToken]_vars

C14_Witness ==
  /\ tasks["tick1"].result \in {"auth_failed", "fetch_failed"}
  /\ tasks["tick2"].pc \in {"auth_wait", "fetch_wait"}
  /\ tasks["tick2"].inCycle

(***************************************************************************)
(* Properties of the start-up (SpecOutage).                                *)
(***************************************************************************)
\* the cycles in progress that were started as initial
InitialCycles == {t \in Tasks : tasks[t].inCycle /\ tasks[t].isInitial}

\* C15: there is one cold-start cycle: no two cycles started as initial are in
\* progress together, and the start-up timer's callback does not end without
\* having started its cycle.
C15_OneColdStart ==
  /\ Cardinality(InitialCycles) <= 1
  /\ tasks["cold"].result # "auth_failed"

(***************************************************************************)
(* Properties of the retry loops (SpecRetry).                              *)
(***************************************************************************)
\* this step is the failure of the request callback t waits for
AuthRequestFails(t) ==
  tasks[t].pc = "auth_wait" /\ faultsLeft' = faultsLeft - 1

DataRequestFails(t) ==
  tasks[t].pc = "fetch_wait" /\ faultsLeft' = faultsLeft - 1 /\ tasks'[t].pc # "auth_wait"

\* C11: one call of getIDLCAuthToken posts at most RetryCount auth requests,
\* and the failure of the last one ends the call in failure, with no backoff
\* and no further request.
C11_AuthAttemptsBounded ==
  [][\A t \in Tasks :
       /\ tasks'[t].authAttempt <= RetryCount
       /\ (AuthRequestFails(t) /\ tasks[t].authAttempt = RetryCount)
            => /\ tasks'[t].pc \notin {"auth_wait", "auth_backoff"}
               /\ authToken' = authToken
               /\ tasks[t].ctx \in {"pre", "cold"} => tasks'[t] = Done("auth_failed")]_vars

\* the last attempt of a call is in flight after RetryCount - 1 failed ones,
\* and may fail too
C11_Witness ==
  /\ tasks["cold"].pc = "auth_wait"
  /\ tasks["cold"].authAttempt = RetryCount
  /\ faultsLeft = MaxRetryFaults - (RetryCount - 1)

\* C12: one call of getAllStockCompanies sends at most RetryCount data
\* requests, and the failure of the last one ends the call in failure and
\* leaves the stored snapshot as it was.
C12_FetchAttemptsBounded ==
  [][\A t \in Tasks :
       /\ tasks'[t].attempt <= RetryCount
       /\ (DataRequestFails(t) /\ tasks[t].attempt = RetryCount)
            => /\ tasks'[t] = Done("fetch_failed")
               /\ latestStockMap' = latestStockMap
               /\ inbox' = inbox]_vars

\* the last data request of a call is in flight after RetryCount - 1 failed
\* ones, and may fail too
C12_Witness ==
  /\ tasks["cold"].pc = "fetch_wait"
  /\ tasks["cold"].attempt = RetryCount
  /\ tasks["cold"].reauths = 0
  /\ faultsLeft = MaxRetryFaults - (RetryCount - 1)

\* C22 as stated: an auth response carrying a failure result code is not
\* retried: the call never waits to post another request after it.
C22_RejectionNotRetried ==
  \A t \in Tasks : ~(tasks[t].pc = "auth_backoff" /\ tasks[t].fault = "rejected")

\* C22 amended: the only failures after which the call waits and posts another
\* request are a failure result code and a timeout or reset, each within the
\* RetryCount attempts; any other failure ends the call in failure at once.
C22_OnlyCodesAndTransientsRetried ==
  [][\A t \in Tasks :
       AuthRequestFails(t)
         => /\ tasks'[t].pc = "auth_backoff"
                 => /\ tasks'[t].fault \in {"rejected", "transient"}
                    /\ tasks[t].authAttempt < RetryCount
            /\ tasks'[t].pc # "auth_backoff"
                 => /\ tasks'[t].pc # "auth_wait"
                    /\ authToken' = authToken]_vars

\* the start-up timer's call ended in failure on its first request
C22_Witness ==
  /\ tasks["cold"] = Done("auth_failed")
  /\ faultsLeft = MaxRetryFaults - 1

(***************************************************************************)
(* Properties of one cycle against an upstream that keeps failing          *)
(* (SpecCycle).                                                            *)
(***************************************************************************)
\* C28: a started cycle ends, whatever the upstream answers: it sends at
\* most RetryCount data requests, re-authenticates at most RetryCount times
\* with at most RetryCount auth requests each time, never meets as many
\* failures as the upstream could deliver, and reaches its end.
C28_CycleTerminates ==
  /\ [](\A t \in Tasks :
          /\ tasks[t].attempt <= RetryCount
          /\ tasks[t].reauths <= RetryCount
          /\ tasks[t].authAttempt <= RetryCount)
  /\ [](faultsLeft > 0)
  /\ \A t \in Tasks : tasks[t].inCycle ~> tasks[t].pc = "done"

\* the cycle has ended after the fifth data request was answered 401 and the
\* fifth re-authentication failed on its fifth auth request
C28_Witness ==
  /\ tasks[TickOrder[1]] = Done("fetch_failed")
  /\ faultsLeft = MaxCycleFaults - (RetryCount - 1) - RetryCount * (RetryCount + 1)

(***************************************************************************)
(* Properties of overlapping cycles against a changing feed (SpecOrder).   *)
(***************************************************************************)
\* the version of the feed the stored snapshot holds (0: nothing stored)
StoredVersion(m) ==
  IF \E v \in 1..Len(Feed) : m = Mapped(Normalize(Feed[v]))
  THEN CHOOSE v \in 1..Len(Feed) : m = Mapped(Normalize(Feed[v]))
  ELSE 0

\* C26: the stored snapshot never goes back to older data: when the response
\* of a fetch arrives, the version it stores is not older than the version
\* stored before, also when two fetches were in flight together and their
\* responses arrive in the other order.
C26_NoRegress ==
  [][\A t \in Tasks :
       (tasks[t].pc = "fetch_wait" /\ tasks'[t].pc = "done")
         => StoredVersion(latestStockMap') >= StoredVersion(latestStockMap)]_vars

(***************************************************************************)
(* Properties of the broadcast hub (SpecHub).                              *)
(***************************************************************************)
Registered == {clients[i] : i \in 1..Len(clients)}

Last(seq) == seq[Len(seq)]

\* the subscriber connected while a snapshot was stored: its connection
\* started no fetch of its own
JoinedWithBaseline(c) == conn[c] # "none" /\ tasks[c].pc = "idle"

\* this step ends a cycle with a broadcast
Broadcasts(t) == tasks[t].pc = "fetch_wait" /\ tasks'[t].result = "broadcast"

\* C5: a subscriber that connects while a snapshot is stored has the full
\* snapshot as its first message, before any incremental update.
C5_FullFirst ==
  \A c \in Clients :
    JoinedWithBaseline(c) =>
      /\ inbox[c] # << >>
      /\ inbox[c][1].type = "stock_data"
      /\ inbox[c][1].data # << >>

C5_Witness ==
  \E c \in Clients :
    /\ JoinedWithBaseline(c)
    /\ Len(inbox[c]) >= 2
    /\ inbox[c][1].type = "stock_data"
    /\ inbox[c][2].type = "stock_update"

\* C23: for every subscriber, also one that connects before any snapshot is
\* stored while a timer cycle is in flight, the first data message is the
\* full snapshot: no incremental update comes before it.
C23_FullFirstAlways ==
  \A c \in Clients :
    inbox[c] # << >> => inbox[c][1].type = "stock_data"

\* a subscriber's view: a full snapshot replaces it, an incremental update
\* writes each of its records over the record of the same key
RECURSIVE Upsert(_, _, _)
Upsert(view, records, i) ==
  IF i > Len(records) THEN view
  ELSE Upsert(MapSet(view, records[i].trading_code, records[i]), records, i + 1)

RECURSIVE ViewOf(_, _, _)
ViewOf(messages, i, view) ==
  IF i > Len(messages) THEN view
  ELSE ViewOf(messages, i + 1,
              IF messages[i].type = "stock_data"
              THEN Upsert(EmptyMap, messages[i].data, 1)
              ELSE Upsert(view, messages[i].data, 1))

\* the view built from all the messages c received holds, for every key of
\* the stored snapshot, the stored record
ViewAgrees(c) ==
  LET view == ViewOf(inbox[c], 1, EmptyMap)
  IN \A i \in 1..Len(latestStockMap) :
       MapGet(view, latestStockMap[i].trading_code) = latestStockMap[i]

\* C25: between callbacks, the view of every subscriber that joined with a
\* baseline and has stayed open agrees with the stored snapshot on every key
\* of the stored snapshot, whatever the order of ticks, connections and
\* responses, overlapping cycles included.
C25_ViewConsistent ==
  \A c \in Clients :
    (JoinedWithBaseline(c) /\ conn[c] = "open") => ViewAgrees(c)

\* the second tick's cycle has broadcast an update to such a subscriber while
\* the first tick's cycle still waits for its response
C25_Witness ==
  \E c \in Clients :
    /\ JoinedWithBaseline(c) /\ conn[c] = "open"
    /\ tasks[TickOrder[1]].pc = "fetch_wait"
    /\ tasks[TickOrder[2]].result = "broadcast"
    /\ Len(inbox[c]) >= 2
    /\ Last(inbox[c]).type = "stock_update"
    /\ MapSize(latestStockMap) > 0

\* C6: in a broadcast where the send to one subscriber fails, every
\* registered subscriber whose connection is open and sound receives that
\* broadcast's message.
C6_FaultIsolation ==
  [][\A t \in Tasks :
       (Broadcasts(t) /\ \E f \in Registered : conn[f] \in {"broken", "failed"})
         => \A c \in Registered :
              conn[c] = "open" =>
                /\ Len(inbox'[c]) = Len(inbox[c]) + 1
                /\ SubSeq(inbox'[c], 1, Len(inbox[c])) = inbox[c]
                /\ \A d \in Registered :
                     conn[d] = "open" => Last(inbox'[d]) = Last(inbox'[c])]_vars

C6_Witness ==
  /\ clients = <<"c1", "c2">>
  /\ conn["c1"] = "failed"
  /\ conn["c2"] = "open"
  /\ inbox["c2"] # << >>
  /\ Last(inbox["c2"]).type = "stock_update"
  /\ (inbox["c1"] = << >> \/ Last(inbox["c1"]) # Last(inbox["c2"]))

\* the records of the new snapshot that are new or changed against the old
\* one, in the order of the response (whose keys are distinct)
DiffOf(prev, new) == SelectSeq(new, LAMBDA r : Changed(prev, r))

\* this step ends a cycle that was not started as initial and whose diff is
\* not empty
CycleWithDiff(t) ==
  /\ tasks[t].pc = "fetch_wait" /\ tasks'[t].pc = "done"
  /\ ~tasks[t].isInitial
  /\ DiffOf(latestStockMap, latestStockMap') # << >>

\* C17 as stated: on a cycle with a non-empty diff every registered subscriber
\* receives one incremental update whose data is that diff.
C17_AllRegisteredGetDiff ==
  [][\A t \in Tasks :
       (tasks[t].pc = "fetch_wait" /\ tasks'[t].pc = "done"
          /\ DiffOf(latestStockMap, latestStockMap') # << >>)
         => \A c \in Registered :
              inbox'[c] = Append(inbox[c],
                [type |-> "stock_update",
                 data |-> DiffOf(latestStockMap, latestStockMap')])]_vars

\* C17 amended: on a cycle not started as initial with a non-empty diff, every
\* registered subscriber whose connection is open receives one incremental
\* update whose data is that diff; the others receive nothing.
C17_OpenRegisteredGetDiff ==
  [][\A t \in Tasks :
       CycleWithDiff(t)
         => /\ tasks'[t].result = "broadcast"
            /\ \A c \in Clients :
                 inbox'[c] =
                   IF c \in Registered /\ conn[c] = "open"
                   THEN Append(inbox[c],
                          [type |-> "stock_update",
                           data |-> DiffOf(latestStockMap, latestStockMap')])
                   ELSE inbox[c]]_vars

C17_Witness ==
  /\ clients = <<"c1", "c2">>
  /\ conn["c1"] = "open" /\ conn["c2"] = "open"
  /\ inbox["c1"] # << >> /\ inbox["c2"] # << >>
  /\ Last(inbox["c1"]).type = "stock_update"
  /\ Last(inbox["c2"]) = Last(inbox["c1"])
  /\ Last(inbox["c1"]).data # MapValues(latestStockMap)

\* this step is the connection of c while no snapshot is stored
ConnectsWithoutBaseline(c) ==
  conn[c] = "none" /\ conn'[c] # "none" /\ MapSize(latestStockMap) = 0

\* this step ends the cycle that the connection of c started, with its data
ConnectionFetchSucceeds(c) ==
  tasks[c].pc = "fetch_wait" /\ tasks'[c].pc = "done" /\ faultsLeft' = faultsLeft

Removed == {c \in Clients : conn[c] # "none" /\ c \notin Registered}

\* C19: once removed a subscriber stays out of the registry, and a further
\* removal of it (the close event after the error event) leaves the registry
\* as it was.
C19_RemovalTerminal ==
  [][\A c \in Removed :
       /\ c \notin {clients'[i] : i \in 1..Len(clients')}
       /\ conn'[c] # conn[c] => clients' = clients]_vars

\* the error event of c1 removed it, its close event is still to come, and
\* c2 is registered
C19_Witness ==
  /\ conn["c1"] = "closing"
  /\ "c1" \in Removed
  /\ "c2" \in Registered

\* C7: a subscriber whose send fails or whose connection is found closed
\* during a broadcast is removed from the registry by that broadcast.
C7_FaultyRemoved ==
  [][\A t \in Tasks :
       Broadcasts(t)
         => \A c \in Registered :
              conn[c] # "open" => c \notin {clients'[i] : i \in 1..Len(clients')}]_vars

(***************************************************************************)
(* Properties of the Socket.IO server (SpecIO).                            *)
(***************************************************************************)
\* a token is stored and the clock reads before its expiry
IoValid == ioAuthToken # NoToken /\ ioNow < ioExpiry

\* C10: a call of fetchStockData made while the session is valid takes the
\* stored token and sends its data request without any auth request.
C10_CachedNoRequest ==
  [][\A t \in FetchCalls :
       (ioTasks[t].pc = "idle" /\ ioTasks'[t].pc # "idle" /\ IoValid)
         => /\ ioTasks'[t].pc = "fetch_wait"
            /\ ioTasks'[t].token = ioAuthToken
            /\ ioTasks'[t].payload = 0
            /\ ioAuthToken' = ioAuthToken]_vars

\* this step ends the call t of fetchStockData in failure
IoCycleFails(t) ==
  ioTasks[t].pc # "done" /\ ioTasks'[t].pc = "done" /\ ioTasks'[t].result # "ok"

\* the events this step adds to the inbox of socket s
IoAdded(s) == SubSeq(ioInbox'[s], Len(ioInbox[s]) + 1, Len(ioInbox'[s]))

WsFailureSendsNothing ==
  [][\A t \in Tasks :
       (tasks[t].pc # "done" /\ tasks'[t].pc = "done"
          /\ tasks'[t].result \in {"auth_failed", "fetch_failed"})
         => inbox' = inbox /\ latestStockMap' = latestStockMap]_vars

\* this step ends the cycle of t in failure: no token, or no data
CycleFails(t) ==
  /\ tasks[t].inCycle
  /\ tasks'[t].pc = "done"
  /\ tasks'[t].result \in {"auth_failed", "fetch_failed"}

\* this step ends a cycle with the data of its response
CycleSucceeds(t) ==
  /\ tasks[t].pc = "fetch_wait"
  /\ tasks'[t].result \in {"broadcast", "no_changes"}

\* C27: the step that ends a cycle in failure leaves the stored snapshot, the
\* answer of the cached-data query and every subscriber's messages as they
\* were, and no step but the arrival of a cycle's data writes the stored
\* snapshot: a cycle that fails has written nothing.
C27_FailedCycleKeepsSnapshot ==
  [][/\ \A t \in Tasks :
          CycleFails(t) => /\ latestStockMap' = latestStockMap
                           /\ LatestStock' = LatestStock
                           /\ inbox' = inbox
     /\ latestStockMap' # latestStockMap => \E t \in Tasks : CycleSucceeds(t)]_vars

\* a data fetch and a token acquisition have both ended in failure, a snapshot
\* is stored, and the subscriber that connected holds it as its full snapshot
C27_Witness ==
  /\ \E t \in Tasks : tasks[t].result = "fetch_failed"
  /\ \E t \in Tasks : tasks[t].result = "auth_failed"
  /\ LatestStock.code = 200
  /\ \E c \in Clients :
       /\ JoinedWithBaseline(c)
       /\ inbox[c] = <<[type |-> "stock_data", data |-> LatestStock.data]>>

\* a call of fetchStockData posts at most NumPayloads auth requests
IoAuthRequestsBounded ==
  \A t \in IoCalls : ioTasks[t].payload <= NumPayloads

\* C20: once the latest token acquisition has failed, and no token obtained
\* earlier is still before its expiry, the health and connection status
\* report the token as not present.
C20_OutageReportsMissing ==
  (ioLastAuth = "failed" /\ ~IoValid) => IoTokenReported = "missing"

\* this step is a call of fetchStockData by t
IoCalled(t) == ioTasks[t].pc = "idle" /\ ioTasks'[t].pc # "idle"

\* C21: a call made at or after the expiry of the stored token, or after the
\* stored token was answered 401, does not send its data request with that
\* token: it authenticates first.
C21_ExpiredOrRejectedNotUsed ==
  [][\A t \in FetchCalls :
       (IoCalled(t) /\ ioAuthToken # NoToken /\ (ioNow >= ioExpiry \/ ioRejected))
         => ioTasks'[t].pc = "auth_wait"]_vars

\* C21 for the expiry instant alone
IoExpiredTokenNotUsed ==
  [][\A t \in FetchCalls :
       (IoCalled(t) /\ ioAuthToken # NoToken /\ ioNow >= ioExpiry)
         => ioTasks'[t].pc = "auth_wait" /\ ~ioTasks'[t].fromCache]_vars

\* a call of fetchStockData that reports records emits them to every connected
\* socket
IoAllGetUpdates ==
  [][\A t \in FetchCalls :
       (ioTasks[t].pc = "fetch_wait" /\ ioTasks'[t].result = "ok" /\ ioPrev' # ioPrev)
         => \A s \in ioSockets :
              /\ Len(ioInbox'[s]) = Len(ioInbox[s]) + 1
              /\ ioInbox'[s][Len(ioInbox'[s])].event = "stock-updates"]_vars

\* a connected socket's first event is the stored snapshot, or the status that
\* reports no stored record
IoFullFirst ==
  \A s \in ioSockets :
    \/ ioInbox[s][1].event = "stock-updates"
    \/ ioInbox[s][1].event = "server-status" /\ ioInbox[s][1].data.totalStocks = 0

C10_Witness ==
  \E t \in FetchCalls :
    /\ ioTasks[t].pc = "fetch_wait"
    /\ ioTasks[t].fromCache
    /\ ioTasks[t].token = ioAuthToken

====
